---- MODULE Spec2Model ----
(***************************************************************************)
(* xrandream: a display manager that carves the screen into virtual        *)
(* monitors (xrandr --setmonitor / --delmonitor), outlines every enabled   *)
(* region with an overlay window, and lets the user drag an arbitrary      *)
(* region on a full-screen capture surface.                                *)
(*                                                                         *)
(* The model follows src/xrandream.py.  Every method of the manager and of *)
(* the capture surface is an operator from a state record to a state       *)
(* record, so that a call made by a handler (set_state from a toggle       *)
(* handler, the toggled signal emitted by setChecked, a callback invoked   *)
(* by the capture surface) is a use of the callee's operator.  The actions *)
(* are the events the Qt event loop dispatches.                            *)
(***************************************************************************)
EXTENDS Integers, Sequences, FiniteSets, TLC

(* ---------------------------------------------------------------- bounds *)

\* Handlers of the capture surface that may be suspended inside
\* QApplication.processEvents() at the same time.
MaxDepth == 1

\* Regions other than select_region that the user has enabled at once.
MaxEnabled == 1

\* Outline windows of one region that were never destroy()ed.
MaxLive == 2

\* Entries of `xrandr --listmonitors` at startup.
MaxListed == 1

\* Largest screen side of the partitioner's exhaustive check.
MaxSide == 12

\* Regions other than select_region enabled together, where the regions are
\* checked against each other.
MaxTogether == 2

(* --------------------------------------------------------------- regions *)

\* xrandream.py:56-74, the keys of enabled_displays
GridRegions ==
    { "right_half", "left_half",
      "left_third", "center_third", "right_third",
      "top_left_quarter", "top_right_quarter",
      "bottom_left_quarter", "bottom_right_quarter",
      "top_left_sixth", "top_center_sixth", "top_right_sixth",
      "bottom_left_sixth", "bottom_center_sixth", "bottom_right_sixth" }

Regions == {"select_region", "full_screen"} \cup GridRegions

\* GridCell with the cells of the two halves exchanged
GridCell_halves_swapped(area) ==
    CASE area = "left_half"            -> [parts |-> 2, row |-> 0, col |-> 1]
      [] area = "right_half"           -> [parts |-> 2, row |-> 0, col |-> 0]
      [] area = "left_third"           -> [parts |-> 3, row |-> 0, col |-> 0]
      [] area = "center_third"         -> [parts |-> 3, row |-> 0, col |-> 1]
      [] area = "right_third"          -> [parts |-> 3, row |-> 0, col |-> 2]
      [] area = "top_left_quarter"     -> [parts |-> 4, row |-> 0, col |-> 0]
      [] area = "top_right_quarter"    -> [parts |-> 4, row |-> 0, col |-> 1]
      [] area = "bottom_left_quarter"  -> [parts |-> 4, row |-> 1, col |-> 0]
      [] area = "bottom_right_quarter" -> [parts |-> 4, row |-> 1, col |-> 1]
      [] area = "top_left_sixth"       -> [parts |-> 6, row |-> 0, col |-> 0]
      [] area = "top_center_sixth"     -> [parts |-> 6, row |-> 0, col |-> 1]
      [] area = "top_right_sixth"      -> [parts |-> 6, row |-> 0, col |-> 2]
      [] area = "bottom_left_sixth"    -> [parts |-> 6, row |-> 1, col |-> 0]
      [] area = "bottom_center_sixth"  -> [parts |-> 6, row |-> 1, col |-> 1]
      [] area = "bottom_right_sixth"   -> [parts |-> 6, row |-> 1, col |-> 2]

\* The cell every grid handler takes from divide_screen:
\* dimensions = self.divide_screen(parts)[row][col]
GridCell(area) ==
    CASE area = "left_half"            -> [parts |-> 2, row |-> 0, col |-> 0]
      [] area = "right_half"           -> [parts |-> 2, row |-> 0, col |-> 1]
      [] area = "left_third"           -> [parts |-> 3, row |-> 0, col |-> 0]
      [] area = "center_third"         -> [parts |-> 3, row |-> 0, col |-> 1]
      [] area = "right_third"          -> [parts |-> 3, row |-> 0, col |-> 2]
      [] area = "top_left_quarter"     -> [parts |-> 4, row |-> 0, col |-> 0]
      [] area = "top_right_quarter"    -> [parts |-> 4, row |-> 0, col |-> 1]
      [] area = "bottom_left_quarter"  -> [parts |-> 4, row |-> 1, col |-> 0]
      [] area = "bottom_right_quarter" -> [parts |-> 4, row |-> 1, col |-> 1]
      [] area = "top_left_sixth"       -> [parts |-> 6, row |-> 0, col |-> 0]
      [] area = "top_center_sixth"     -> [parts |-> 6, row |-> 0, col |-> 1]
      [] area = "top_right_sixth"      -> [parts |-> 6, row |-> 0, col |-> 2]
      [] area = "bottom_left_sixth"    -> [parts |-> 6, row |-> 1, col |-> 0]
      [] area = "bottom_center_sixth"  -> [parts |-> 6, row |-> 1, col |-> 1]
      [] area = "bottom_right_sixth"   -> [parts |-> 6, row |-> 1, col |-> 2]

(* ------------------------------------------------------------- variables *)

VARIABLES
    phase,                \* "boot" before PyRandrWidget(), "running" after
    screen,               \* app.primaryScreen().size() as <<width, height>>
    monitors,             \* the X server's monitors: name -> geometry token
    enabled_displays,     \* VirtualDisplayManager.enabled_displays
    rectangles,           \* VirtualDisplayManager.rectangles (a dict)
    checked,              \* isChecked() of push_button_<area>
    connected,            \* connect_ui() has bound toggled to the handlers
    is_snipping,          \* SnippingWidget.is_snipping
    begin,                \* SnippingWidget.begin
    end,                  \* SnippingWidget.end
    onSnippingCompleted,  \* SnippingWidget.onSnippingCompleted
    onSnippingCancelled,  \* SnippingWidget.onSnippingCancelled
    visible,              \* the capture surface is shown
    stack,                \* handlers suspended in processEvents(), innermost last
    live,                 \* per region: OutlineWidgets created minus destroy()ed
                          \* (a window the dict lets go of was not destroy()ed)
    fired,                \* callbacks invoked since the last start()
    budget,               \* xrandr invocations that may still fail in this run
    trace,                \* what the event dispatched last did, in order
    pressed,              \* a mouse button is held down on the capture surface
    drag,                 \* where the button went down and where the pointer is
    parts,                \* partitioner check: the argument of divide_screen
    grid                  \* partitioner check: the value divide_screen returned

vars == << phase, screen, monitors, enabled_displays, rectangles, checked,
           connected, is_snipping, begin, end, onSnippingCompleted,
           onSnippingCancelled, visible, stack, live, fired, budget, trace,
           pressed, drag, parts, grid >>

(* ------------------------------------------------------------ partitioner *)

\* math.ceil(a / b) for integers a >= 0, b > 0
Ceil(a, b) == (a + b - 1) \div b

\* math.ceil(w / parts * rows).  The source divides in double precision.  For
\* parts in {2,3,4,6} and rows = 2 if parts > 3 else 1 the product is w, w/3,
\* w/2 or w/1.5 up to one rounding: a quotient that is an integer or a half is
\* exact in binary, and any other is at least 1/3 away from an integer, far
\* more than a rounding error for a screen width.  The ceiling is therefore
\* the ceiling of the exact quotient w * rows / parts.
CeilScaled(w, p, rows) == Ceil(w * rows, p)

\* the quotient rounded down
FloorScaled(w, p, rows) == (w * rows) \div p

\* divide_screen with the offsets of row and column exchanged
divide_screen_rowmajor(scr, p) ==
    LET rows == IF p > 3 THEN 2 ELSE 1
        pw   == CeilScaled(scr[1], p, rows)
        ph   == Ceil(scr[2], rows)
    IN  [r \in 0 .. rows - 1 |->
            [c \in 0 .. (p \div rows) - 1 |-> << pw, ph, pw * r, ph * c >>]]

\* divide_screen rounding the cell size down
divide_screen_floor(scr, p) ==
    LET rows == IF p > 3 THEN 2 ELSE 1
        pw   == FloorScaled(scr[1], p, rows)
        ph   == scr[2] \div rows
    IN  [r \in 0 .. rows - 1 |->
            [c \in 0 .. (p \div rows) - 1 |-> << pw, ph, pw * c, ph * r >>]]

\* xrandream.py:133-146.  result[r][c] = (pw, ph, pw * c, ph * r)
divide_screen(scr, p) ==
    LET rows == IF p > 3 THEN 2 ELSE 1
        pw   == CeilScaled(scr[1], p, rows)
        ph   == Ceil(scr[2], rows)
    IN  [r \in 0 .. rows - 1 |->
            [c \in 0 .. (p \div rows) - 1 |-> << pw, ph, pw * c, ph * r >>]]

(* ------------------------------------------------------ the state record *)

\* Everything a handler can read or write, as one value.
Cur ==
    [ monitors            |-> monitors,
      enabled_displays    |-> enabled_displays,
      rectangles          |-> rectangles,
      checked             |-> checked,
      connected           |-> connected,
      is_snipping         |-> is_snipping,
      begin               |-> begin,
      end                 |-> end,
      onSnippingCompleted |-> onSnippingCompleted,
      onSnippingCancelled |-> onSnippingCancelled,
      visible             |-> visible,
      live                |-> live,
      fired               |-> fired,
      budget              |-> budget,
      trace               |-> trace ]

\* The state an event handler starts from: the trace restarts with each event.
Fresh == [Cur EXCEPT !.trace = << >>]

Becomes(s) ==
    /\ monitors' = s.monitors
    /\ enabled_displays' = s.enabled_displays
    /\ rectangles' = s.rectangles
    /\ checked' = s.checked
    /\ connected' = s.connected
    /\ is_snipping' = s.is_snipping
    /\ begin' = s.begin
    /\ end' = s.end
    /\ onSnippingCompleted' = s.onSnippingCompleted
    /\ onSnippingCancelled' = s.onSnippingCancelled
    /\ visible' = s.visible
    /\ live' = s.live
    /\ fired' = s.fired
    /\ budget' = s.budget
    /\ trace' = s.trace

Ev(op, area, geom, val, pre) ==
    [op |-> op, area |-> area, geom |-> geom, val |-> val, pre |-> pre]

Log(s, e) == [s EXCEPT !.trace = Append(@, e)]

\* d[k] = v on a Python dict
DictSet(d, k, v) == [a \in DOMAIN d \cup {k} |-> IF a = k THEN v ELSE d[a]]

\* del d[k]
DictDel(d, k) == [a \in DOMAIN d \ {k} |-> d[a]]

(* ------------------------------------------------------------ the gateway *)

\* f'PYR-{name}', as its two parts
PYR(name) == << "PYR-", name >>

\* f'{width}/1x{height}/1+{offset_x}+{offset_y}'
FormatDimensions(w, h, x, y) ==
    [w |-> w, mmw |-> 1, h |-> h, mmh |-> 1, x |-> x, y |-> y]

\* the parse taking the physical sizes for the pixel sizes
ParseDimensions_mm(d) == << d.mmw, d.mmh, d.x, d.y >>

\* re.findall(r'(\d+)/\d+x(\d+)/\d+\+(\d+)\+(\d+)', dimensions)[0]
ParseDimensions(d) == << d.w, d.h, d.x, d.y >>

\* set_monitor undoing the enable when xrandr fails
set_monitor_rollback(s, name, w, h, x, y, ok) ==
    LET s1 == Log(s, Ev("set_monitor", name, << w, h, x, y >>, ok, FALSE))
    IN  IF ok
        THEN [s1 EXCEPT !.monitors =
                  DictSet(@, PYR(name), FormatDimensions(w, h, x, y))]
        ELSE [s1 EXCEPT !.budget = @ - 1, !.enabled_displays[name] = FALSE]

\* xrandream.py:37-48.  check_call raises CalledProcessError when xrandr exits
\* nonzero (ok = FALSE); the monitor is defined or redefined otherwise.
set_monitor(s, name, w, h, x, y, ok) ==
    LET s1 == Log(s, Ev("set_monitor", name, << w, h, x, y >>, ok, FALSE))
    IN  IF ok
        THEN [s1 EXCEPT !.monitors =
                  DictSet(@, PYR(name), FormatDimensions(w, h, x, y))]
        ELSE [s1 EXCEPT !.budget = @ - 1]

\* xrandream.py:29-35.  xrandr also exits nonzero when no monitor has the name.
del_monitor(s, name, ok) ==
    LET s1 == Log(s, Ev("del_monitor", name, << >>,
                        ok /\ PYR(name) \in DOMAIN s.monitors, FALSE))
    IN  IF ok
        THEN [s1 EXCEPT !.monitors = DictDel(@, PYR(name))]
        ELSE [s1 EXCEPT !.budget = @ - 1]

(* ------------------------------------------------------- outline overlays *)

\* xrandream.py:422-430: the window is placed by
\* setGeometry(start.x(), start.y(), end.x() - start.x(), end.y() - start.y())
OutlineWidget(start, endp) == [start |-> start, end |-> endp]

\* <<x, y, width, height>> of an overlay
Geometry(o) ==
    << o.start[1], o.start[2], o.end[1] - o.start[1], o.end[2] - o.start[2] >>

\* self.rectangles[area] = OutlineWidget(start, end): a window is created and
\* stored under the key, whatever the key held before.
StoreOutline(s, area, start, endp) ==
    LET o == OutlineWidget(start, endp)
    IN  Log([s EXCEPT !.rectangles = DictSet(@, area, o),
                      !.live[area] = @ + 1],
            Ev("create", area, Geometry(o), FALSE, FALSE))

\* self.rectangles[area].destroy()
DestroyOutline(s, area) ==
    Log([s EXCEPT !.live[area] = @ - 1], Ev("destroy", area, << >>, FALSE, FALSE))

\* xrandream.py:148-151
draw_outline(s, area, w, h, x, y) ==
    LET s1 == IF area \in DOMAIN s.rectangles THEN DestroyOutline(s, area) ELSE s
    IN  StoreOutline(s1, area, << x, y >>, << x + w, y + h >>)

(* ------------------------------------------------------ the capture surface *)

\* QPoint()
NullPoint == << 0, 0 >>

\* xrandream.py:349-357
start(s, region_selected_callback, selection_cancelled_callback) ==
    Log([s EXCEPT !.is_snipping = TRUE,
                  !.onSnippingCompleted = region_selected_callback,
                  !.onSnippingCancelled = selection_cancelled_callback,
                  !.visible = TRUE,
                  !.fired = [completed |-> 0, cancelled |-> 0, exits |-> 0]],
        Ev("start", "select_region", << >>, FALSE, FALSE))

\* xrandream.py:359-376: outside a capture the pending selection is cleared
paintEvent(s) ==
    IF s.is_snipping THEN s
    ELSE [s EXCEPT !.begin = NullPoint, !.end = NullPoint]

\* QWidget.repaint(): paintEvent() at once, unless the widget is hidden
repaint(s) == IF s.visible THEN paintEvent(s) ELSE s

\* QWidget.close()
close(s) == Log([s EXCEPT !.visible = FALSE],
                Ev("close", "select_region", << >>, FALSE, FALSE))

(* --------------------------------------------------------- the manager *)

\* a guard that refuses nothing
check_invalid_state_never(s, area, enabled) == FALSE

\* xrandream.py:86-87
check_invalid_state(s, area, enabled) == enabled = s.enabled_displays[area]

RECURSIVE set_state(_, _, _, _)
RECURSIVE toggled(_, _, _, _)

\* QPushButton.setChecked(v): when the checked state changes, the button emits
\* toggled(v), which runs the connected handler before setChecked returns.
setChecked(s, area, v, ok) ==
    IF s.checked[area] = v THEN s
    ELSE LET s1 == Log([s EXCEPT !.checked[area] = v],
                       Ev("setChecked", area, << >>, v, FALSE))
         IN  IF s1.connected THEN toggled(s1, area, v, ok) ELSE s1

\* set_state where enabling one region clears the flags of the others
set_state_exclusive(s, area, enabled, ok) ==
    IF check_invalid_state(s, area, enabled)
    THEN [s |-> Log(s, Ev("set_state", area, << >>, FALSE, FALSE)), ret |-> FALSE]
    ELSE LET s1 == [s EXCEPT !.enabled_displays =
                       [q \in Regions |->
                           IF q = area THEN enabled ELSE @[q] /\ ~enabled]]
             s2 == setChecked(Log(s1, Ev("flag", area, << >>, enabled, FALSE)),
                              area, enabled, ok)
             s3 == IF ~enabled /\ area \in DOMAIN s2.rectangles
                   THEN [DestroyOutline(s2, area) EXCEPT
                            !.rectangles = DictDel(@, area)]
                   ELSE s2
         IN  [s |-> Log(s3, Ev("set_state", area, << >>, TRUE, FALSE)), ret |-> TRUE]

\* set_state without the destroy() and the del of lines 95-97
set_state_keep(s, area, enabled, ok) ==
    IF check_invalid_state(s, area, enabled)
    THEN [s |-> Log(s, Ev("set_state", area, << >>, FALSE, FALSE)), ret |-> FALSE]
    ELSE LET s1 == [s EXCEPT !.enabled_displays[area] = enabled]
             s2 == setChecked(Log(s1, Ev("flag", area, << >>, enabled, FALSE)),
                              area, enabled, ok)
         IN  [s |-> Log(s2, Ev("set_state", area, << >>, TRUE, FALSE)), ret |-> TRUE]

\* xrandream.py:89-98, as [s |-> the state after, ret |-> the value returned]
set_state(s, area, enabled, ok) ==
    IF check_invalid_state(s, area, enabled)
    THEN [s |-> Log(s, Ev("set_state", area, << >>, FALSE, FALSE)), ret |-> FALSE]
    ELSE LET s1 == [s EXCEPT !.enabled_displays[area] = enabled]
             s2 == setChecked(Log(s1, Ev("flag", area, << >>, enabled, FALSE)),
                              area, enabled, ok)
             s3 == IF ~enabled /\ area \in DOMAIN s2.rectangles
                   THEN [DestroyOutline(s2, area) EXCEPT
                            !.rectangles = DictDel(@, area)]
                   ELSE s2
         IN  [s |-> Log(s3, Ev("set_state", area, << >>, TRUE, FALSE)), ret |-> TRUE]

\* xrandream.py:114-116
complete_region_selection(s, tl, br, ok) ==
    set_monitor(StoreOutline(s, "select_region", tl, br),
                "select_region", br[1] - tl[1], br[2] - tl[2], tl[1], tl[2], ok)

\* xrandream.py:118-119
cancel_region_selection(s, ok) == set_state(s, "select_region", FALSE, ok).s

\* xrandream.py:104-112
select_region(s, enabled, ok) ==
    LET r == set_state(s, "select_region", enabled, ok)
    IN  IF ~r.ret THEN r.s
        ELSE IF enabled
             THEN start(r.s, "complete_region_selection", "cancel_region_selection")
             ELSE del_monitor(r.s, "select_region", ok)

\* select_full_screen giving up the outline when xrandr fails
select_full_screen_abort(s, enabled, ok) ==
    LET r == set_state(s, "full_screen", enabled, ok)
    IN  IF ~r.ret THEN r.s
        ELSE IF enabled
             THEN LET m == set_monitor(r.s, "full_screen",
                                       screen[1], screen[2], 0, 0, ok)
                  IN  IF ok
                      THEN StoreOutline(m, "full_screen", << 0, 0 >>,
                                        << screen[1], screen[2] >>)
                      ELSE m
             ELSE del_monitor(r.s, "full_screen", ok)

\* xrandream.py:121-131
select_full_screen(s, enabled, ok) ==
    LET r == set_state(s, "full_screen", enabled, ok)
    IN  IF ~r.ret THEN r.s
        ELSE IF enabled
             THEN StoreOutline(
                      set_monitor(r.s, "full_screen", screen[1], screen[2], 0, 0, ok),
                      "full_screen", << 0, 0 >>, << screen[1], screen[2] >>)
             ELSE del_monitor(r.s, "full_screen", ok)

\* xrandream.py:153-331: the fifteen grid handlers, which differ in the region
\* name and in the cell of divide_screen they take
select_grid(s, area, enabled, ok) ==
    LET r == set_state(s, area, enabled, ok)
    IN  IF ~r.ret THEN r.s
        ELSE IF enabled
             THEN LET cell == GridCell(area)
                      dimensions == divide_screen(screen, cell.parts)[cell.row][cell.col]
                  IN  draw_outline(
                          set_monitor(r.s, area, dimensions[1], dimensions[2],
                                      dimensions[3], dimensions[4], ok),
                          area, dimensions[1], dimensions[2],
                          dimensions[3], dimensions[4])
             ELSE del_monitor(r.s, area, ok)

\* xrandream.py:469-523: the handler connect_ui binds to push_button_<area>,
\* called with the button's new checked state
toggled(s, area, enabled, ok) ==
    LET s0 == Log(s, Ev("handler", area, << >>, enabled, s.enabled_displays[area]))
        s1 == CASE area = "select_region" -> select_region(s0, enabled, ok)
                [] area = "full_screen"   -> select_full_screen(s0, enabled, ok)
                [] OTHER                  -> select_grid(s0, area, enabled, ok)
    IN  Log(s1, Ev("return", area, << >>, enabled, FALSE))

(* ------------------------------------------- the capture surface's events *)

\* xrandream.py:378-381 (update() asks for a paintEvent, delivered later)
mousePressEvent(s, pos) == [s EXCEPT !.begin = pos, !.end = pos]

\* xrandream.py:383-385
mouseMoveEvent(s, pos) == [s EXCEPT !.end = pos]

Min(a, b) == IF a < b THEN a ELSE b
Max(a, b) == IF a > b THEN a ELSE b

\* xrandream.py:387-397, up to QApplication.processEvents(): the state, and the
\* locals x1, y1, x2, y2 the handler holds while events are processed
mouseReleaseEvent_enter(s) ==
    LET x1 == Min(s.begin[1], s.end[1])
        y1 == Min(s.begin[2], s.end[2])
        x2 == Max(s.begin[1], s.end[1])
        y2 == Max(s.begin[2], s.end[2])
    IN  [s     |-> repaint([s EXCEPT !.is_snipping = FALSE]),
         frame |-> [h |-> "mouseReleaseEvent", tl |-> << x1, y1 >>, br |-> << x2, y2 >>]]

\* xrandream.py:399-403, after processEvents() has returned
mouseReleaseEvent_resume(s, frame, ok) ==
    LET s1 == IF s.onSnippingCompleted # "None"
              THEN complete_region_selection(
                       Log([s EXCEPT !.fired.completed = @ + 1],
                           Ev("onCompleted", "select_region",
                              frame.tl \o frame.br, FALSE, FALSE)),
                       frame.tl, frame.br, ok)
              ELSE s
    IN  close([s1 EXCEPT !.onSnippingCompleted = "None",
                         !.fired.exits = @ + 1])

\* xrandream.py:405-410, up to processEvents(), for event.key() == Qt.Key_Escape
keyPressEvent_enter(s) ==
    [s     |-> repaint(s),
     frame |-> [h |-> "keyPressEvent", tl |-> NullPoint, br |-> NullPoint]]

\* xrandream.py:411-417, after processEvents() has returned
keyPressEvent_resume(s, ok) ==
    LET s1 == [s EXCEPT !.onSnippingCompleted = "None"]
        s2 == IF s1.onSnippingCancelled # "None"
              THEN cancel_region_selection(
                       Log([s1 EXCEPT !.fired.cancelled = @ + 1],
                           Ev("onCancelled", "select_region", << >>, FALSE, FALSE)),
                       ok)
              ELSE s1
    IN  close([s2 EXCEPT !.onSnippingCancelled = "None",
                         !.fired.exits = @ + 1])

(* ------------------------------------------------------------- startup *)

\* Xrandr.list_monitors(): one (index, name, dimensions, outputs) per monitor;
\* the loop of init_active_monitors reads name and dimensions.
RECURSIVE list_monitors(_)
list_monitors(m) ==
    IF DOMAIN m = {} THEN << >>
    ELSE LET n == CHOOSE k \in DOMAIN m : TRUE
         IN  << [name |-> n, dimensions |-> m[n]] >> \o list_monitors(DictDel(m, n))

\* name.startswith('PYR-') and name[4:] in self.enabled_displays
IsManaged(name) ==
    /\ Len(name) >= 1
    /\ name[1] = "PYR-"
    /\ Len(name) = 2
    /\ name[2] \in Regions

\* name.replace('PYR-', ''), for a name that passed IsManaged
StripPrefix(name) == SelectSeq(name, LAMBDA part : part # "PYR-")[1]

\* xrandream.py:78-84
RECURSIVE init_active_monitors_from(_, _)
init_active_monitors_from(s, listed) ==
    IF listed = << >> THEN s
    ELSE LET e == Head(listed)
         IN  IF IsManaged(e.name)
             THEN LET name == StripPrefix(e.name)
                      d    == ParseDimensions(e.dimensions)
                      s1   == draw_outline(s, name, d[1], d[2], d[3], d[4])
                  IN  init_active_monitors_from(
                          set_state(s1, name, TRUE, TRUE).s, Tail(listed))
             ELSE init_active_monitors_from(s, Tail(listed))

init_active_monitors(s) ==
    init_active_monitors_from(
        Log(s, Ev("list_monitors", "", << >>, TRUE, FALSE)), list_monitors(s.monitors))

\* PyRandrWidget calling connect_ui before it builds the manager
PyRandrWidget_connect_first(s) ==
    init_active_monitors([s EXCEPT !.connected = TRUE])

\* xrandream.py:457-464: load_ui, VirtualDisplayManager(self), connect_ui,
\* SnippingWidget(self)
PyRandrWidget(s) == [init_active_monitors(s) EXCEPT !.connected = TRUE]

(* ------------------------------------------------------------ the actions *)

\* Positions the pointer takes on the capture surface.
Points == { << 0, 0 >>, << 1, 2 >>, << 2, 1 >> }

Keys == { "Key_Escape", "Key_A" }

\* An xrandr invocation may fail (ok = FALSE) while the run's budget lasts.
Outcomes == { ok \in BOOLEAN : ok \/ budget > 0 }

EnabledCount ==
    Cardinality({ r \in Regions \ {"select_region"} : enabled_displays[r] })

\* The surface hidden, the pointer is not held down on it.
Held(s, p) == s.visible /\ p

\* No button is held down.
NoDrag == [b |-> NullPoint, e |-> NullPoint]

Construct ==
    /\ phase = "boot"
    /\ phase' = "running"
    /\ Becomes(PyRandrWidget(Fresh))
    /\ UNCHANGED << screen, stack, pressed, drag, parts, grid >>

\* The user toggles push_button_<area>: the button changes its checked state
\* and emits toggled with the new state.
Toggle(area) ==
    /\ phase = "running"
    /\ \E ok \in Outcomes :
          LET s == toggled([Fresh EXCEPT !.checked[area] = ~checked[area]],
                           area, ~checked[area], ok)
          IN  /\ Becomes(s)
              /\ pressed' = Held(s, pressed)
              /\ drag' = IF Held(s, pressed) THEN drag ELSE NoDrag
    /\ UNCHANGED << phase, screen, stack, parts, grid >>

\* A toggle within the bounds on what is enabled at once
Click(area) ==
    /\ checked[area] \/ IF area = "select_region"
                        THEN live[area] < MaxLive
                        ELSE EnabledCount < MaxEnabled
    /\ Toggle(area)

MousePress(pos) ==
    /\ phase = "running" /\ visible /\ ~pressed
    /\ Becomes(mousePressEvent(Fresh, pos))
    /\ pressed' = TRUE
    /\ drag' = [b |-> pos, e |-> pos]
    /\ UNCHANGED << phase, screen, stack, parts, grid >>

\* Mouse tracking is off: moves are delivered while a button is held.
MouseMove(pos) ==
    /\ phase = "running" /\ visible /\ pressed
    /\ Becomes(mouseMoveEvent(Fresh, pos))
    /\ drag' = [drag EXCEPT !.e = pos]
    /\ UNCHANGED << phase, screen, stack, pressed, parts, grid >>

\* A paint event of the capture surface (after update(), or an expose).
Paint ==
    /\ phase = "running" /\ visible
    /\ Becomes(paintEvent(Fresh))
    /\ UNCHANGED << phase, screen, stack, pressed, drag, parts, grid >>

\* mouseReleaseEvent whose processEvents() finds no event to dispatch
MouseRelease ==
    /\ phase = "running" /\ visible /\ pressed
    /\ \E ok \in Outcomes :
          LET e == mouseReleaseEvent_enter(Fresh)
          IN  Becomes(mouseReleaseEvent_resume(e.s, e.frame, ok))
    /\ pressed' = FALSE
    /\ drag' = NoDrag
    /\ UNCHANGED << phase, screen, stack, parts, grid >>

\* mouseReleaseEvent up to processEvents(), which goes on to dispatch events
MouseReleaseEnter ==
    /\ phase = "running" /\ visible /\ pressed
    /\ Len(stack) < MaxDepth
    /\ LET e == mouseReleaseEvent_enter(Fresh)
       IN  /\ Becomes(e.s)
           /\ stack' = Append(stack, e.frame)
    /\ pressed' = FALSE
    /\ drag' = NoDrag
    /\ UNCHANGED << phase, screen, parts, grid >>

\* processEvents() returns to the innermost suspended mouseReleaseEvent
MouseReleaseResume ==
    /\ stack # << >>
    /\ stack[Len(stack)].h = "mouseReleaseEvent"
    /\ \E ok \in Outcomes :
          Becomes(mouseReleaseEvent_resume(Fresh, stack[Len(stack)], ok))
    /\ stack' = SubSeq(stack, 1, Len(stack) - 1)
    /\ pressed' = FALSE
    /\ drag' = NoDrag
    /\ UNCHANGED << phase, screen, parts, grid >>

\* keyPressEvent whose processEvents() finds no event to dispatch
KeyPress(key) ==
    /\ phase = "running" /\ visible
    /\ IF key = "Key_Escape"
       THEN /\ \E ok \in Outcomes :
                  Becomes(keyPressEvent_resume(keyPressEvent_enter(Fresh).s, ok))
            /\ pressed' = FALSE
            /\ drag' = NoDrag
       ELSE /\ Becomes(Fresh)
            /\ UNCHANGED << pressed, drag >>
    /\ UNCHANGED << phase, screen, stack, parts, grid >>

\* keyPressEvent for Escape up to processEvents(), which dispatches events
KeyPressEnter ==
    /\ phase = "running" /\ visible
    /\ Len(stack) < MaxDepth
    /\ LET e == keyPressEvent_enter(Fresh)
       IN  /\ Becomes(e.s)
           /\ stack' = Append(stack, e.frame)
    /\ UNCHANGED << phase, screen, pressed, drag, parts, grid >>

\* processEvents() returns to the innermost suspended keyPressEvent
KeyPressResume ==
    /\ stack # << >>
    /\ stack[Len(stack)].h = "keyPressEvent"
    /\ \E ok \in Outcomes : Becomes(keyPressEvent_resume(Fresh, ok))
    /\ stack' = SubSeq(stack, 1, Len(stack) - 1)
    /\ pressed' = FALSE
    /\ drag' = NoDrag
    /\ UNCHANGED << phase, screen, parts, grid >>

(* ------------------------------------------------------ the initial state *)

\* Geometry tokens of monitors that outlive a run: 960/1x1080/1+0+0 and
\* 3/5x4/6+7+8.
ListedDimensions ==
    { [w |-> 960, mmw |-> 1, h |-> 1080, mmh |-> 1, x |-> 0, y |-> 0],
      [w |-> 3, mmw |-> 5, h |-> 4, mmh |-> 6, x |-> 7, y |-> 8] }

\* Monitor names the X server may hold: the physical one, one with the prefix
\* and no region's name, one with a region's name and no prefix.
ForeignNames == { << "eDP-1" >>, << "PYR-", "spare" >>, << "left_half" >> }

ManagedNames(R) == { PYR(r) : r \in R }

\* The X server's monitors before the program starts, at most MaxListed of them
Listings(names) ==
    UNION { [N -> ListedDimensions] :
               N \in { M \in SUBSET names : Cardinality(M) <= MaxListed } }

Screens == { << 1920, 1080 >>, << 7, 5 >> }

InitWith(listings, screens, budgets) ==
    /\ phase = "boot"
    /\ screen \in screens
    /\ monitors \in listings
    /\ enabled_displays = [r \in Regions |-> FALSE]
    /\ rectangles = << >>
    /\ checked = [r \in Regions |-> FALSE]
    /\ connected = FALSE
    /\ is_snipping = FALSE
    /\ begin = NullPoint
    /\ end = NullPoint
    /\ onSnippingCompleted = "None"
    /\ onSnippingCancelled = "None"
    /\ visible = FALSE
    /\ stack = << >>
    /\ live = [r \in Regions |-> 0]
    /\ fired = [completed |-> 0, cancelled |-> 0, exits |-> 0]
    /\ budget \in budgets
    /\ trace = << >>
    /\ pressed = FALSE
    /\ drag = NoDrag
    /\ parts = 0
    /\ grid = << >>

\* The regions whose buttons the user toggles while a capture is under way.
RunRegions == { "select_region", "full_screen" }

\* The capture surface and the manager, a reliable gateway: a run starts with
\* no virtual monitor or with the one of an earlier capture.
Init ==
    InitWith({ << >> } \cup [ManagedNames({"select_region"}) -> ListedDimensions],
             { << 1920, 1080 >> }, {0})

Next ==
    \/ Construct
    \/ \E area \in RunRegions : Click(area)
    \/ \E pos \in Points : MousePress(pos)
    \/ \E pos \in Points : MouseMove(pos)
    \/ Paint
    \/ MouseRelease
    \/ MouseReleaseEnter
    \/ MouseReleaseResume
    \/ \E key \in Keys : KeyPress(key)
    \/ KeyPressEnter
    \/ KeyPressResume

Spec == Init /\ [][Next]_vars

(* ------------------------------------------- the toggles of every region *)

\* xrandr invocations that fail in one run of an unreliable gateway
FailureBudgets == { 0, 1 }

\* Every button is toggled, on two screens, over a gateway that may fail; the
\* capture surface receives no event.
InitGrid ==
    InitWith({ << >> } \cup [ManagedNames({"select_region"}) -> ListedDimensions],
             Screens, FailureBudgets)

NextGrid ==
    \/ Construct
    \/ \E area \in Regions : Click(area)

SpecGrid == InitGrid /\ [][NextGrid]_vars

(* ------------------------------ the toggles after a startup that found some *)

\* Regions whose monitors an earlier run may have left behind
ListedRegions == { "full_screen", "top_center_sixth" }

\* Startup reconstructs what is listed; every button is then toggled over a
\* gateway that may fail.
InitToggles ==
    InitWith(Listings(ManagedNames(ListedRegions)), { << 7, 5 >> }, FailureBudgets)

NextToggles ==
    \/ Construct
    \/ \E area \in Regions : Click(area)

SpecToggles == InitToggles /\ [][NextToggles]_vars

(* --------------------------------------------- regions enabled together *)

InitTogether == InitWith({ << >> }, { << 1920, 1080 >> }, {0})

\* A toggle while fewer than MaxTogether other regions are enabled
ClickTogether(area) ==
    /\ checked[area] \/ EnabledCount < MaxTogether
    /\ Toggle(area)

\* The buttons of all regions are toggled, several of them enabled at once.
NextTogether ==
    \/ Construct
    \/ \E area \in Regions : ClickTogether(area)

SpecTogether == InitTogether /\ [][NextTogether]_vars

(* ------------------------------------------------------ startup alone *)

InitStartup ==
    InitWith(Listings(ManagedNames(Regions) \cup ForeignNames), Screens, {0})

NextStartup == Construct

SpecStartup == InitStartup /\ [][NextStartup]_vars

(* -------------------------------------------------- the partitioner alone *)

PartScreens ==
    ((1 .. MaxSide) \X (1 .. MaxSide)) \cup { << 1920, 1080 >> }

PartCounts == { 2, 3, 4, 6 }

InitPartition ==
    /\ InitWith({ << >> }, PartScreens, {0})
    /\ phase = "boot"

\* divide_screen(parts) is called on the screen
Divide(p) ==
    /\ parts = 0
    /\ parts' = p
    /\ grid' = divide_screen(screen, p)
    /\ UNCHANGED << phase, screen, monitors, enabled_displays, rectangles,
                    checked, connected, is_snipping, begin, end,
                    onSnippingCompleted, onSnippingCancelled, visible, stack,
                    live, fired, budget, trace, pressed, drag >>

NextPartition == \E p \in PartCounts : Divide(p)

SpecPartition == InitPartition /\ [][NextPartition]_vars

(* ============================================================== claims *)

\* The entries of a trace whose operation is one of ops
Ops(tr, ops) == SelectSeq(tr, LAMBDA e : e.op \in ops)

\* What a handler can do to the flags, the overlays, the gateway or the
\* capture surface
Effects(tr) ==
    Ops(tr, { "flag", "setChecked", "create", "destroy", "set_monitor",
              "del_monitor", "start", "onCompleted", "onCancelled", "close" })

\* A state record without its trace
Sans(s) == [s EXCEPT !.trace = << >>]

\* The state between events: no handler is suspended in processEvents()
BetweenEvents == phase = "running" /\ stack = << >>

(* C1.  Idempotence of the toggle.  When the flag of a region already equals
   x, set_state(region, x) returns False and the region's handler called with
   x changes no flag, creates or destroys no overlay and calls the gateway
   neither way: (a) every handler invocation that the program made with the
   flag's own value consists of the refused set_state and the return; (b) in
   every reachable state the handler of every region, applied with the
   stored flag, leaves the whole state as it is; (c) a second call with the
   same x after any call adds nothing to the first. *)
C1_ToggleIdempotent ==
    /\ \A i \in 1 .. Len(trace) :
          (trace[i].op = "handler" /\ trace[i].val = trace[i].pre) =>
             /\ i + 2 <= Len(trace)
             /\ trace[i + 1] = Ev("set_state", trace[i].area, << >>, FALSE, FALSE)
             /\ trace[i + 2] = Ev("return", trace[i].area, << >>, trace[i].val, FALSE)
    /\ phase = "running" =>
          \A r \in Regions : \A ok \in BOOLEAN :
             /\ set_state(Fresh, r, enabled_displays[r], ok).ret = FALSE
             /\ Sans(set_state(Fresh, r, enabled_displays[r], ok).s) = Fresh
             /\ Sans(toggled(Fresh, r, enabled_displays[r], ok)) = Fresh
             /\ Effects(toggled(Fresh, r, enabled_displays[r], ok).trace) = << >>
    /\ phase = "running" =>
          \A r \in Regions : \A x \in BOOLEAN :
             LET once  == Sans(toggled(Fresh, r, x, TRUE))
                 twice == toggled(once, r, x, TRUE)
             IN  Sans(twice) = once /\ Effects(twice.trace) = << >>

\* C1's case: the program has called a handler with the value the flag holds
C1_Witness ==
    \E i \in 1 .. Len(trace) :
       /\ trace[i].op = "handler"
       /\ trace[i].val = trace[i].pre
       /\ trace[i].area = "select_region"

(* C2.  Exactly one of the two callbacks given to start() is invoked, once:
   never both onCompleted and onCancelled, never one of them twice, and not
   zero once a pointer-up or an Escape has been handled to its end; the
   handling of an Escape invokes no onCompleted. *)
C2_ExactlyOneCallback ==
    /\ fired.completed + fired.cancelled <= 1
    /\ (Ops(trace, {"onCancelled"}) # << >>) => Ops(trace, {"onCompleted"}) = << >>
    /\ (BetweenEvents /\ fired.exits >= 1) => fired.completed + fired.cancelled = 1

(* C3.  The toggle state mirrors the overlay set: between events, the flag of
   a region is true if and only if an outline overlay of the region is in the
   manager's active set. *)
C3_FlagIffOverlay ==
    BetweenEvents =>
       \A r \in Regions : enabled_displays[r] <=> r \in DOMAIN rectangles

(* C4.  At most one live overlay per region: the overlays created for a region
   and not destroyed are never more than one, and none of them is outside the
   active set (none was dropped from it or overwritten in it undestroyed). *)
C4_AtMostOneLiveOverlay ==
    \A r \in Regions : live[r] = IF r \in DOMAIN rectangles THEN 1 ELSE 0

(* C5.  A cancelled capture: whenever the cancel callback has run, the
   select_region flag is false and its button unchecked, the run called the
   gateway neither way, created no overlay, and changed the flag exactly
   once. *)
C5_CancelRevertsOnce ==
    (Ops(trace, {"onCancelled"}) # << >>) =>
       /\ ~enabled_displays["select_region"]
       /\ ~checked["select_region"]
       /\ Ops(trace, {"set_monitor", "del_monitor", "create"}) = << >>
       /\ Len(Ops(trace, {"flag"})) = 1

(* C6.  Startup reconstruction.  After construction, every region whose
   prefixed name the gateway lists has its flag true and exactly one overlay,
   at the listed x, y, width and height; every other region has its flag false
   and no overlay, whatever else is listed.  A single entry PYR-left_half
   960/1x1080/1+0+0 leaves left_half alone enabled, outlined at (0,0),
   960 by 1080. *)
C6_StartupReconstruction ==
    phase = "running" =>
       /\ \A r \in Regions :
             IF PYR(r) \in DOMAIN monitors
             THEN /\ enabled_displays[r]
                  /\ live[r] = 1
                  /\ r \in DOMAIN rectangles
                  /\ Geometry(rectangles[r]) =
                        << monitors[PYR(r)].x, monitors[PYR(r)].y,
                           monitors[PYR(r)].w, monitors[PYR(r)].h >>
             ELSE /\ ~enabled_displays[r]
                  /\ live[r] = 0
                  /\ r \notin DOMAIN rectangles
       /\ (DOMAIN monitors = { PYR("left_half") }
             /\ monitors[PYR("left_half")] =
                   [w |-> 960, mmw |-> 1, h |-> 1080, mmh |-> 1, x |-> 0, y |-> 0])
          => /\ { r \in Regions : enabled_displays[r] } = { "left_half" }
             /\ DOMAIN rectangles = { "left_half" }
             /\ Geometry(rectangles["left_half"]) = << 0, 0, 960, 1080 >>

\* C6's case: the manager was built over the single entry PYR-left_half
C6_Witness ==
    /\ phase = "running"
    /\ DOMAIN monitors = { PYR("left_half") }
    /\ monitors[PYR("left_half")].w = 960
    /\ enabled_displays["left_half"]

\* The cells of a grid, as <<row, column>> pairs
Cells(g) == { rc \in (DOMAIN g) \X (0 .. 5) : rc[2] \in DOMAIN g[rc[1]] }

\* The pixel (px, py) lies in the cell (width, height, x, y)
InCell(cell, px, py) ==
    /\ cell[3] <= px /\ px < cell[3] + cell[1]
    /\ cell[4] <= py /\ py < cell[4] + cell[2]

(* C7.  For parts in {2,3,4,6} and every screen of at least 1 by 1 the cells
   of the partitioner do not overlap pairwise, their union covers the screen
   rectangle, and a cell exceeds the exact share by less than one pixel in
   each dimension, so that the grid passes the right edge by fewer than
   `columns` pixels and the bottom edge by fewer than `rows` pixels. *)
C7_PartitionTiles ==
    parts # 0 =>
       LET rows    == Cardinality(DOMAIN grid)
           columns == Cardinality(DOMAIN grid[0])
           w       == screen[1]
           h       == screen[2]
       IN  /\ \A a \in Cells(grid) : \A b \in Cells(grid) :
                 a # b =>
                    LET ca == grid[a[1]][a[2]]
                        cb == grid[b[1]][b[2]]
                    IN  \/ ca[3] + ca[1] <= cb[3] \/ cb[3] + cb[1] <= ca[3]
                        \/ ca[4] + ca[2] <= cb[4] \/ cb[4] + cb[2] <= ca[4]
           \* every row of pixels lies in one row of cells, whole
           /\ \A py \in 0 .. h - 1 :
                 \E r \in DOMAIN grid :
                    /\ \A c \in DOMAIN grid[r] :
                          grid[r][c][4] <= py /\ py < grid[r][c][4] + grid[r][c][2]
                    \* and every pixel of the row lies in a cell of that row
                    /\ \A px \in 0 .. w - 1 :
                          \E c \in DOMAIN grid[r] :
                             grid[r][c][3] <= px /\ px < grid[r][c][3] + grid[r][c][1]
           /\ (w <= MaxSide /\ h <= MaxSide) =>
                 \A px \in 0 .. w - 1 : \A py \in 0 .. h - 1 :
                    Cardinality({ rc \in Cells(grid) :
                                     InCell(grid[rc[1]][rc[2]], px, py) }) = 1
           /\ \A rc \in Cells(grid) :
                 LET cell == grid[rc[1]][rc[2]]
                 IN  /\ cell[1] * columns >= w /\ cell[1] * columns - w < columns
                     /\ cell[2] * rows >= h    /\ cell[2] * rows - h < rows
                     /\ cell[3] + cell[1] - w < columns
                     /\ cell[4] + cell[2] - h < rows

\* C7's case: a screen no part count divides, where cells pass the edges
C7_Witness ==
    /\ parts = 6
    /\ screen = << 7, 5 >>
    /\ grid[1][2][3] + grid[1][2][1] > 7
    /\ grid[1][2][4] + grid[1][2][2] > 5

(* C8.  The partitioner returns rows = 2 if parts > 3 else 1 rows of
   columns = parts / rows cells; the cell at (r, c) is (width, height,
   width * c, height * r), where width is the least integer not below
   w * rows / parts and height the least integer not below h / rows.  For
   1920 by 1080 and parts = 4: four cells of 960 by 540 at (0,0), (960,0),
   (0,540), (960,540). *)
C8_PartitionFormula ==
    parts # 0 =>
       LET rows    == IF parts > 3 THEN 2 ELSE 1
           columns == parts \div rows
       IN  /\ rows * columns = parts
           /\ DOMAIN grid = 0 .. rows - 1
           /\ \A r \in DOMAIN grid : DOMAIN grid[r] = 0 .. columns - 1
           /\ \A r \in DOMAIN grid : \A c \in DOMAIN grid[r] :
                 LET cell == grid[r][c]
                 IN  /\ cell[1] * parts >= screen[1] * rows
                     /\ (cell[1] - 1) * parts < screen[1] * rows
                     /\ cell[2] * rows >= screen[2]
                     /\ (cell[2] - 1) * rows < screen[2]
                     /\ cell[3] = cell[1] * c
                     /\ cell[4] = cell[2] * r
                     /\ cell[1] = grid[0][0][1]
                     /\ cell[2] = grid[0][0][2]
           /\ (screen = << 1920, 1080 >> /\ parts = 4) =>
                 /\ grid[0][0] = << 960, 540, 0, 0 >>
                 /\ grid[0][1] = << 960, 540, 960, 0 >>
                 /\ grid[1][0] = << 960, 540, 0, 540 >>
                 /\ grid[1][1] = << 960, 540, 960, 540 >>

\* C8's case: the partition of 1920 by 1080 in four was computed
C8_Witness ==
    /\ parts = 4
    /\ screen = << 1920, 1080 >>
    /\ grid[1][1] = << 960, 540, 960, 540 >>

\* The rectangle of a region as the claim states it, as (width, height, x, y):
\* the screen for full_screen, else the cell of the partition in as many parts
\* as the region's name says, in the row and column the name says.
C9_Parts(r) ==
    CASE r \in { "left_half", "right_half" } -> 2
      [] r \in { "left_third", "center_third", "right_third" } -> 3
      [] r \in { "top_left_quarter", "top_right_quarter",
                 "bottom_left_quarter", "bottom_right_quarter" } -> 4
      [] OTHER -> 6

C9_Row(r) ==
    IF r \in { "bottom_left_quarter", "bottom_right_quarter", "bottom_left_sixth",
               "bottom_center_sixth", "bottom_right_sixth" }
    THEN 1 ELSE 0

C9_Column(r) ==
    CASE r \in { "left_half", "left_third", "top_left_quarter",
                 "bottom_left_quarter", "top_left_sixth", "bottom_left_sixth" } -> 0
      [] r \in { "right_half", "center_third", "top_right_quarter",
                 "bottom_right_quarter", "top_center_sixth",
                 "bottom_center_sixth" } -> 1
      [] OTHER -> 2

C9_Rect(r) ==
    IF r = "full_screen" THEN << screen[1], screen[2], 0, 0 >>
    ELSE divide_screen(screen, C9_Parts(r))[C9_Row(r)][C9_Column(r)]

(* C9.  An effective enable of full_screen or of a grid region calls the
   gateway's set_monitor exactly once, under the region's name and with the
   region's own rectangle, and creates exactly one overlay with that
   rectangle; the rectangle is the screen for full_screen and otherwise the
   cell of the partition that the region's name states, at x = column times
   the cell width and y = row times the cell height. *)
C9_EnableUsesOwnRectangle ==
    ( /\ phase = "running"
      /\ trace # << >>
      /\ trace[1].op = "handler"
      /\ trace[1].area # "select_region"
      /\ trace[1].val
      /\ ~trace[1].pre )
    => LET r     == trace[1].area
           rect  == C9_Rect(r)
           calls == Ops(trace, {"set_monitor", "del_monitor"})
           wins  == Ops(trace, {"create", "destroy"})
       IN  /\ Len(calls) = 1
           /\ calls[1].op = "set_monitor"
           /\ calls[1].area = r
           /\ calls[1].geom = rect
           /\ wins = << Ev("create", r, << rect[3], rect[4], rect[1], rect[2] >>,
                           FALSE, FALSE) >>
           /\ r \in DOMAIN rectangles
           /\ Geometry(rectangles[r]) = << rect[3], rect[4], rect[1], rect[2] >>
           /\ live[r] = 1
           /\ r # "full_screen" =>
                 /\ rect[3] = C9_Column(r) * rect[1]
                 /\ rect[4] = C9_Row(r) * rect[2]
                 /\ rect[1] * C9_Parts(r) >=
                       screen[1] * (IF C9_Parts(r) > 3 THEN 2 ELSE 1)

\* C9's case: bottom_right_sixth was enabled on the 7 by 5 screen
C9_Witness ==
    /\ phase = "running"
    /\ screen = << 7, 5 >>
    /\ trace # << >>
    /\ trace[1] = Ev("handler", "bottom_right_sixth", << >>, TRUE, FALSE)
    /\ Geometry(rectangles["bottom_right_sixth"]) = << 6, 3, 3, 3 >>

C10_Step ==
    ( /\ trace' # << >>
      /\ trace'[1].op = "handler"
      /\ ~trace'[1].val
      /\ trace'[1].pre )
    => LET r     == trace'[1].area
           calls == Ops(trace', {"set_monitor", "del_monitor"})
       IN  /\ Len(calls) = 1
           /\ calls[1].op = "del_monitor"
           /\ calls[1].area = r
           /\ Ops(trace', {"create"}) = << >>
           /\ ~enabled_displays'[r]
           /\ r \notin DOMAIN rectangles'
           /\ IF r \in DOMAIN rectangles
              THEN /\ Ops(trace', {"destroy"}) =
                         << Ev("destroy", r, << >>, FALSE, FALSE) >>
                   /\ live'[r] = live[r] - 1
              ELSE /\ Ops(trace', {"destroy"}) = << >>
                   /\ live'[r] = live[r]
           /\ \A q \in Regions \ {r} :
                 (q \in DOMAIN rectangles) <=> (q \in DOMAIN rectangles')

(* C10.  An effective toggle of a region from enabled to disabled through its
   handler calls the gateway's del_monitor exactly once, under the region's
   name, and set_monitor not at all; afterwards the active set holds no
   overlay of the region: the one it held was destroyed and removed, and when
   it held none the flag is cleared all the same. *)
C10_DisableRemoves == [][C10_Step]_vars

\* C10's case: a region that had an overlay was disabled through its handler
C10_Witness ==
    /\ phase = "running"
    /\ trace # << >>
    /\ trace[1] = Ev("handler", "select_region", << >>, FALSE, TRUE)
    /\ Ops(trace, {"destroy"}) # << >>
    /\ Ops(trace, {"del_monitor"}) # << >>

\* The corners the claim states for a drag from b to e, as top-left \o
\* bottom-right
C11_Corners(b, e) ==
    << Min(b[1], e[1]), Min(b[2], e[2]), Max(b[1], e[1]), Max(b[2], e[2]) >>

\* The rectangle mouseReleaseEvent computes after pointer-down at b, the
\* moves of path in order and a last move to e
C11_Reported(b, path, e) ==
    LET RECURSIVE Moved(_, _)
        Moved(s, ps) == IF ps = << >> THEN s
                        ELSE Moved(mouseMoveEvent(s, Head(ps)), Tail(ps))
        f == mouseReleaseEvent_enter(
                 mouseMoveEvent(Moved(mousePressEvent(Fresh, b), path), e)).frame
    IN  f.tl \o f.br

C11_Step ==
    \* a pointer-up that runs to its end
    /\ (pressed /\ stack' = stack /\ Ops(trace', {"onCompleted"}) # << >>) =>
          Ops(trace', {"onCompleted"})[1].geom = C11_Corners(drag.b, drag.e)
    \* a pointer-up that is suspended in processEvents()
    /\ (pressed /\ Len(stack') = Len(stack) + 1
               /\ stack'[Len(stack')].h = "mouseReleaseEvent") =>
          stack'[Len(stack')].tl \o stack'[Len(stack')].br
             = C11_Corners(drag.b, drag.e)
    \* and resumed
    /\ (Len(stack) = Len(stack') + 1 /\ Ops(trace', {"onCompleted"}) # << >>) =>
          Ops(trace', {"onCompleted"})[1].geom
             = stack[Len(stack)].tl \o stack[Len(stack)].br
    \* the direction of the drag and the moves in between
    /\ pressed' =>
          /\ C11_Reported(drag'.b, << >>, drag'.e) = C11_Corners(drag'.b, drag'.e)
          /\ C11_Reported(drag'.e, << >>, drag'.b) = C11_Reported(drag'.b, << >>, drag'.e)
          /\ \A p \in Points : \A q \in Points :
                C11_Reported(drag'.b, << p, q >>, drag'.e)
                   = C11_Reported(drag'.b, << >>, drag'.e)

(* C11.  A capture of pointer-down at b, any pointer-moves and pointer-up
   with the pointer last at e invokes onCompleted with the top-left corner
   (min(b.x, e.x), min(b.y, e.y)) and the bottom-right corner (max(b.x, e.x),
   max(b.y, e.y)); the rectangle is the same with b and e exchanged, and the
   positions of the moves in between do not influence it. *)
C11_DragRectangle == [][C11_Step]_vars

(* C12.  After either terminal transition the selector is idle: between
   events, once the capture surface is closed (a completion or an Escape
   cancellation has ended the capture, or none has begun), is_snipping is
   false and the pending selection begin, end is empty. *)
C12_IdleAfterTerminal ==
    (BetweenEvents /\ ~visible) =>
       /\ ~is_snipping
       /\ begin = NullPoint
       /\ end = NullPoint

\* x >= 0, y >= 0, width > 0 and height > 0 of a rectangle <<x, y, w, h>>
C13_Proper(x, y, w, h) == x >= 0 /\ y >= 0 /\ w > 0 /\ h > 0

(* C13.  Every rectangle handed to the gateway's set_monitor or owned by an
   outline overlay has x >= 0, y >= 0, width > 0 and height > 0; a zero width
   or height stays in the drag in progress. *)
C13_ProperRectangles ==
    /\ \A i \in 1 .. Len(trace) :
          trace[i].op = "set_monitor" =>
             C13_Proper(trace[i].geom[3], trace[i].geom[4],
                        trace[i].geom[1], trace[i].geom[2])
    /\ \A r \in DOMAIN rectangles :
          LET g == Geometry(rectangles[r])
          IN  C13_Proper(g[1], g[2], g[3], g[4])

(* C14.  No orphaned virtual monitor: over a gateway whose every command
   succeeds, between events a monitor named for a region exists at the
   gateway only if the flag of the region is true. *)
C14_NoOrphanMonitor ==
    BetweenEvents =>
       \A r \in Regions : PYR(r) \in DOMAIN monitors => enabled_displays[r]

\* What the process holds of a state: everything but the X server's monitors,
\* the failures left to the gateway and the log
C15_InProcess(s) == [s EXCEPT !.monitors = << >>, !.budget = 0, !.trace = << >>]

\* A log without the outcomes of the gateway calls
C15_Blind(tr) ==
    [i \in 1 .. Len(tr) |->
        IF tr[i].op = "set_monitor" THEN [tr[i] EXCEPT !.val = TRUE] ELSE tr[i]]

(* C15.  A failed set_monitor is swallowed.  (a) When the call failed during
   an effective enable, the handler ran to its end, the flag is true, the
   button checked and the overlay created, set_monitor was called once (no
   retry) and del_monitor and destroy() not at all (no rollback).  (b) In
   every state, enabling any disabled region with a failing set_monitor gives
   the in-process state, and the sequence of operations, that it gives with a
   succeeding one; so does the completion of a capture of select_region. *)
C15_FailureSwallowed ==
    /\ ( /\ phase = "running"
         /\ trace # << >>
         /\ trace[1].op = "handler"
         /\ trace[1].val
         /\ ~trace[1].pre
         /\ \E i \in 1 .. Len(trace) :
               trace[i].op = "set_monitor" /\ ~trace[i].val )
       => LET r == trace[1].area
          IN  /\ trace[Len(trace)] = Ev("return", r, << >>, TRUE, FALSE)
              /\ enabled_displays[r]
              /\ checked[r]
              /\ r \in DOMAIN rectangles
              /\ live[r] = 1
              /\ Len(Ops(trace, {"set_monitor"})) = 1
              /\ Ops(trace, {"del_monitor", "destroy"}) = << >>
              /\ Len(Ops(trace, {"create"})) = 1
    /\ phase = "running" =>
          \A r \in Regions :
             ~enabled_displays[r] =>
                LET pre == [Fresh EXCEPT !.checked[r] = TRUE]
                    won == toggled(pre, r, TRUE, TRUE)
                    lost == toggled(pre, r, TRUE, FALSE)
                IN  /\ C15_InProcess(lost) = C15_InProcess(won)
                    /\ C15_Blind(lost.trace) = C15_Blind(won.trace)
                    /\ lost.enabled_displays[r]
    /\ (phase = "running" /\ visible) =>
          LET e == mouseReleaseEvent_enter(Fresh)
              won == mouseReleaseEvent_resume(e.s, e.frame, TRUE)
              lost == mouseReleaseEvent_resume(e.s, e.frame, FALSE)
          IN  /\ C15_InProcess(lost) = C15_InProcess(won)
              /\ C15_Blind(lost.trace) = C15_Blind(won.trace)

\* C15's case: xrandr failed while bottom_left_quarter was being enabled
C15_Witness ==
    /\ phase = "running"
    /\ trace # << >>
    /\ trace[1] = Ev("handler", "bottom_left_quarter", << >>, TRUE, FALSE)
    /\ \E i \in 1 .. Len(trace) : trace[i].op = "set_monitor" /\ ~trace[i].val
    /\ PYR("bottom_left_quarter") \notin DOMAIN monitors
    /\ "bottom_left_quarter" \in DOMAIN rectangles

\* What holds of every single event: the toggle only starts the capture, the
\* completion callback calls set_monitor once with the reported rectangle and
\* creates the overlay there, nothing else calls set_monitor for select_region
C16_PerEvent ==
    /\ ( /\ phase = "running"
         /\ trace # << >>
         /\ trace[1] = Ev("handler", "select_region", << >>, TRUE, FALSE) )
       => /\ Ops(trace, {"set_monitor", "del_monitor", "create"}) = << >>
          /\ Len(Ops(trace, {"start"})) = 1
    /\ \A i \in 1 .. Len(trace) :
          trace[i].op = "onCompleted" =>
             LET g     == trace[i].geom
                 calls == Ops(trace, {"set_monitor"})
                 wins  == Ops(trace, {"create"})
             IN  /\ Len(calls) = 1
                 /\ calls[1].area = "select_region"
                 /\ calls[1].geom = << g[3] - g[1], g[4] - g[2], g[1], g[2] >>
                 /\ Len(wins) = 1
                 /\ wins[1].area = "select_region"
                 /\ wins[1].geom = << g[1], g[2], g[3] - g[1], g[4] - g[2] >>
                 /\ Len(Ops(trace, {"onCompleted"})) = 1
    /\ \A i \in 1 .. Len(trace) :
          (trace[i].op = "set_monitor" /\ trace[i].area = "select_region") =>
             Ops(trace, {"onCompleted"}) # << >>
    /\ Ops(trace, {"onCancelled"}) # << >> => Ops(trace, {"set_monitor"}) = << >>

(* C16.  The gateway call for select_region is deferred to completion: an
   effective enable of select_region calls the gateway not at all and starts
   the capture; set_monitor for select_region is called once per completed
   capture, at the reported top-left and with width and height bottom-right
   minus top-left, and the overlay created then has the same rectangle; a
   capture that was cancelled has called set_monitor not at all (set_monitor
   being called by the completion callback alone, a capture whose cancel
   callback has run has not run its completion callback). *)
C16_DeferredToCompletion ==
    /\ C16_PerEvent
    /\ fired.cancelled >= 1 => fired.completed = 0

(* C17.  For full_screen and every grid region, between events, after startup
   reconstruction and any toggles, whether or not the gateway calls succeed:
   the flag of the region is true if and only if exactly one live overlay of
   the region exists, held in the active set; otherwise none exists. *)
C17_FlagIffOneOverlay ==
    BetweenEvents =>
       \A r \in Regions \ {"select_region"} :
          /\ enabled_displays[r] <=> live[r] = 1
          /\ enabled_displays[r] <=> r \in DOMAIN rectangles
          /\ live[r] \in {0, 1}

\* C17's case: full_screen, found at startup and outlined, was disabled by a
\* toggle whose del_monitor failed
C17_Witness ==
    /\ BetweenEvents
    /\ trace # << >>
    /\ trace[1] = Ev("handler", "full_screen", << >>, FALSE, TRUE)
    /\ ~enabled_displays["full_screen"]
    /\ live["full_screen"] = 0
    /\ PYR("full_screen") \in DOMAIN monitors

\* A state restricted to the regions other than r
C18_Others(r, flags, boxes, overlays, count) ==
    [q \in Regions \ {r} |->
        << flags[q], boxes[q], count[q],
           IF q \in DOMAIN overlays THEN << overlays[q] >> ELSE << >> >>]

C18_Step ==
    \* the toggle event the step dispatched
    /\ ( /\ phase = "running"
         /\ trace' # << >>
         /\ trace'[1].op = "handler" )
       => LET r == trace'[1].area
          IN  /\ C18_Others(r, enabled_displays', checked', rectangles', live')
                    = C18_Others(r, enabled_displays, checked, rectangles, live)
              /\ \A i \in 1 .. Len(trace') :
                    trace'[i].op \in { "set_monitor", "del_monitor", "create",
                                       "destroy", "flag", "setChecked" }
                       => trace'[i].area = r
              /\ \A n \in (DOMAIN monitors \cup DOMAIN monitors') \ { PYR(r) } :
                    /\ n \in DOMAIN monitors /\ n \in DOMAIN monitors'
                    /\ monitors'[n] = monitors[n]
    \* no mutual exclusion: whatever is enabled, any disabled region can be
    \* enabled, and all that was enabled stays so
    /\ phase = "running" =>
          \A r \in Regions :
             ~enabled_displays[r] =>
                LET s == toggled([Fresh EXCEPT !.checked[r] = TRUE], r, TRUE, TRUE)
                IN  /\ s.enabled_displays = [enabled_displays EXCEPT ![r] = TRUE]
                    /\ C18_Others(r, s.enabled_displays, s.checked,
                                  s.rectangles, s.live)
                          = C18_Others(r, enabled_displays, checked,
                                       rectangles, live)

(* C18.  A toggle event for region R affects R only: the flag, the button
   and the overlay of every other region stay as they were, and the gateway
   is called under R's name alone.  No region excludes another: whatever set
   of regions is enabled, overlapping ones included, any further region can
   be enabled, and enabling it disables none. *)
C18_ToggleAffectsOwnRegion == [][C18_Step]_vars

\* C18's case: left_half was enabled while full_screen, which covers it, was
\* enabled, and both are
C18_Witness ==
    /\ phase = "running"
    /\ trace # << >>
    /\ trace[1] = Ev("handler", "left_half", << >>, TRUE, FALSE)
    /\ enabled_displays["full_screen"] /\ enabled_displays["left_half"]
    /\ "full_screen" \in DOMAIN rectangles /\ "left_half" \in DOMAIN rectangles
    /\ PYR("full_screen") \in DOMAIN monitors /\ PYR("left_half") \in DOMAIN monitors

C19_Step ==
    (phase = "boot" /\ phase' = "running") =>
       /\ Len(Ops(trace', {"list_monitors"})) = 1
       /\ Ops(trace', {"set_monitor", "del_monitor"}) = << >>
       /\ Ops(trace', {"handler", "start"}) = << >>
       /\ monitors' = monitors
       /\ budget' = budget
       \* the buttons of the regions found were set checked all the same
       /\ \A r \in Regions :
             (PYR(r) \in DOMAIN monitors) <=>
                (\E i \in 1 .. Len(trace') :
                    trace'[i] = Ev("setChecked", r, << >>, TRUE, FALSE))

(* C19.  Startup reconstruction is read-only towards the gateway: building
   the manager runs list_monitors once and neither set_monitor nor
   del_monitor, whatever is listed; setting the buttons checked runs no
   toggle handler, the handlers being connected after the manager is built;
   the gateway's monitors after startup are those before. *)
C19_StartupReadOnly == [][C19_Step]_vars

\* C19's case: startup found the monitor of select_region and set its button
\* checked
C19_Witness ==
    /\ phase = "running"
    /\ PYR("select_region") \in DOMAIN monitors
    /\ checked["select_region"]
    /\ \E i \in 1 .. Len(trace) :
          trace[i] = Ev("setChecked", "select_region", << >>, TRUE, FALSE)
    /\ ~visible

(* C20.  Once a capture has ended, by a pointer-up as by an Escape, and until
   the next start(), the selector stores neither callback: onSnippingCompleted
   and onSnippingCancelled are both None. *)
C20_CallbacksCleared ==
    fired.exits >= 1 =>
       /\ onSnippingCompleted = "None"
       /\ onSnippingCancelled = "None"

====
